---- MODULE Spec2Model ----
(***************************************************************************)
(* Jsonable: conversion between typed values and serde_json::Value.        *)
(*                                                                         *)
(* The three operations of the Jsonable trait (validate_json,              *)
(* from_json_unchecked, to_json) and the provided from_json are modelled   *)
(* as recursive operators over type descriptors; the state machine applies *)
(* them to a Value slot owned by a caller.                                 *)
(*                                                                         *)
(* Representation.  Every value is a tagged tuple, so that values of       *)
(* different kinds can live in one set:                                    *)
(*   JSON      <<"null">> <<"bool",b>> <<"number",cls,n>> <<"string",s>>   *)
(*             <<"array",seq>> <<"object",seq of <<key,value>>>>           *)
(*   number    cls is serde_json's N: "PosInt", "NegInt" or "Float"; a     *)
(*             Float carries its value in halves (n = 3 is 1.5)            *)
(*   Result    <<"Ok",x>>  <<"Err",e>>;  a panic is <<"Panic">>            *)
(*   Option    <<"Some",x>>  <<"None">>                                    *)
(***************************************************************************)
EXTENDS Integers, Sequences, FiniteSets, TLC

VARIABLES
    ty,     \* the type T whose impl is called
    json,   \* the caller's serde_json::Value, or Moved
    value,  \* the caller's value of type T, or NoValue
    arg,    \* the Value the calls on the current Value were given
    calls,  \* how many times validate_json was called on the current Value
    vres,   \* what validate_json returned
    dres,   \* what from_json_unchecked returned
    fres,   \* what from_json returned
    op      \* the last call

vars == <<ty, json, value, arg, calls, vres, dres, fres, op>>

(***************************************************************************)
(* Bounds of the explored inputs.                                          *)
(***************************************************************************)
\* length N of the fixed-size array type [u8; N]
ArrayN == 2
\* longest JSON array in the input pool: one more than [u8; N] takes
MaxLen == ArrayN + 1
\* most validate_json calls on one Value
MaxCalls == 2
\* most keys of a JSON object in the input pool
MaxKeys == 2
\* most members of a native Vec / HashSet / HashMap handed to to_json
MaxElems == 2

(***************************************************************************)
(* serde_json::Value                                                       *)
(***************************************************************************)
Null == <<"null">>

Bool(b) == <<"bool", b>>

Number(cls, n) == <<"number", cls, n>>

String(s) == <<"string", s>>

Array(vec) == <<"array", vec>>

Object(map) == <<"object", map>>

\* the name the error messages give to a Value's variant
kind(j) == j[1]

\* Option and Result of the standard library, and a panic
None == <<"None">>

Some(x) == <<"Some", x>>

Ok(x) == <<"Ok", x>>

Err(e) == <<"Err", e>>

Panic == <<"Panic">>

Unit == <<"()">>

is_ok(r) == r[1] = "Ok"

is_err(r) == r[1] = "Err"

\* Option::unwrap_or
unwrap_or(o, d) == IF o = None THEN d ELSE o[2]

(***************************************************************************)
(* serde_json::Map, an ordered sequence of <<key, value>> with distinct    *)
(* keys.                                                                   *)
(***************************************************************************)
contains_key(map, k) == \E i \in 1..Len(map) : map[i][1] = k

map_get(map, k) ==
    IF contains_key(map, k)
    THEN Some(map[CHOOSE i \in 1..Len(map) : map[i][1] = k][2])
    ELSE None

\* Iterator::last over Map::keys
keys_last(map) == IF Len(map) = 0 THEN None ELSE Some(map[Len(map)][1])

\* Value::as_array / as_array_mut, Value::as_object / as_object_mut, Value::as_str
as_array(j) == IF kind(j) = "array" THEN Some(j[2]) ELSE None

as_object(j) == IF kind(j) = "object" THEN Some(j[2]) ELSE None

as_str(j) == IF kind(j) = "string" THEN Some(j[2]) ELSE None

\* Value::as_u64: only a non-negative integer
as_u64(j) == IF kind(j) = "number" /\ j[2] = "PosInt" THEN Some(j[3]) ELSE None

\* Value::as_i64: any integer (one that fits in an i64, as all modelled ones do)
as_i64(j) == IF kind(j) = "number" /\ j[2] \in {"PosInt", "NegInt"} THEN Some(j[3]) ELSE None

\* Value::as_f64: every number; the result is in halves
as_f64(j) ==
    IF kind(j) # "number" THEN None
    ELSE IF j[2] = "Float" THEN Some(j[3]) ELSE Some(2 * j[3])

(***************************************************************************)
(* JsonableError                                                           *)
(***************************************************************************)
IncompatibleJsonType(got, expected) == <<"IncompatibleJsonType", got, expected>>

IncompatibleEntryForType(t) == <<"IncompatibleEntryForType", t>>

InnerErrorForType(t, error) == <<"InnerErrorForType", t, error>>

InvalidArrayLength(got, expected) == <<"InvalidArrayLength", got, expected>>

InnerErrorsForType(t, errors) == <<"InnerErrorsForType", t, errors>>

MissingKeyForEnumVariant(variant, key) == <<"MissingKeyForEnumVariant", variant, key>>

IncorrectFieldCountForEnum(enum_type, variant, count) ==
    <<"IncorrectFieldCountForEnum", enum_type, variant, count>>

IncorrectObjectKeyCountForEnum(t, count) == <<"IncorrectObjectKeyCountForEnum", t, count>>

IncorrectKeyForEnum(t, key) == <<"IncorrectKeyForEnum", t, key>>

InvalidEnumStringVariant(enum_type, got, expected) ==
    <<"InvalidEnumStringVariant", enum_type, got, expected>>

(***************************************************************************)
(* Type descriptors: what the derive macro and the generic impls see.      *)
(*   <<"u8">> .. <<"f64">>, <<"String">>                                   *)
(*   <<"Option",T>> <<"Vec",T>> <<"HashSet",T>> <<"HashMap",T>>            *)
(*   <<"Array",T,N>>                                                       *)
(*   <<"NamedStruct",name,fields>>   fields: seq of <<field name, T>>      *)
(*   <<"TupleStruct",name,fields>>   fields: seq of T                      *)
(*   <<"UnitStruct",name>>                                                 *)
(*   <<"Enum",name,variants>>  variants: seq of <<name,"Unit">>,           *)
(*       <<name,"Unnamed",seq of T>> or <<name,"Named",seq of <<f,T>>>>    *)
(***************************************************************************)
NumberTypes == {"u8", "u16", "u32", "u64", "i8", "i16", "i32", "i64", "f32", "f64"}

\* the accessor each number_impl! instance reads the number with
method(T) ==
    CASE T[1] \in {"u8", "u16", "u32", "u64"} -> "as_u64"
      [] T[1] \in {"i8", "i16", "i32", "i64"} -> "as_i64"
      [] T[1] \in {"f32", "f64"} -> "as_f64"

RECURSIVE type_name(_)
\* std::any::type_name::<T>()
type_name(T) ==
    CASE T[1] \in NumberTypes -> T[1]
      [] T[1] = "String" -> "alloc::string::String"
      [] T[1] = "Option" -> "core::option::Option<" \o type_name(T[2]) \o ">"
      [] T[1] = "Vec" -> "alloc::vec::Vec<" \o type_name(T[2]) \o ">"
      [] T[1] = "HashSet" -> "std::collections::hash::set::HashSet<" \o type_name(T[2]) \o ">"
      [] T[1] = "HashMap" ->
           "std::collections::hash::map::HashMap<alloc::string::String, "
               \o type_name(T[2]) \o ">"
      [] T[1] = "Array" -> "[" \o type_name(T[2]) \o "; " \o ToString(T[3]) \o "]"
      [] OTHER -> T[2]

\* declaration parts of a derived type
type_ident(T) == T[2]

fields_of(T) == T[3]

variants_of(T) == T[3]

\* variant of expected_string_types: the name of every variant is pushed
expected_string_types_all_variants(T) ==
    [i \in 1..Len(variants_of(T)) |-> variants_of(T)[i][1]]

\* the names of the unit variants, in declaration order (expected_string_types)
expected_string_types(T) ==
    LET units == SelectSeq(variants_of(T), LAMBDA v : v[2] = "Unit")
    IN [i \in 1..Len(units) |-> units[i][1]]

\* idx.to_string(): the key of the idx-th (0-based) field of a tuple struct
index_key(idx) == ToString(idx)

(***************************************************************************)
(* validate_json                                                           *)
(***************************************************************************)
RECURSIVE validate_json(_, _)
RECURSIVE struct_validate_fields(_, _, _, _)
RECURSIVE validate_json_object(_, _, _, _)
RECURSIVE named_validate_parts(_, _, _, _, _)
RECURSIVE unnamed_validate_parts(_, _, _, _)

\* Iterator::all over the entries' validate_json; a panic in an entry reached
\* before the first failing one escapes
entries_panic(T, vec) ==
    \E i \in 1..Len(vec) :
        /\ validate_json(T, vec[i]) = Panic
        /\ \A k \in 1..(i - 1) : is_ok(validate_json(T, vec[k]))

entries_all_ok(T, vec) == \A i \in 1..Len(vec) : is_ok(validate_json(T, vec[i]))

\* number_impl!: validate_json
number_validate_json(T, j) ==
    IF kind(j) = "number" THEN Ok(Unit)
    ELSE Err(IncompatibleJsonType(kind(j), "number"))

\* impl Jsonable for String: validate_json
string_validate_json(j) ==
    IF kind(j) = "string" THEN Ok(Unit)
    ELSE Err(IncompatibleJsonType(kind(j), "string"))

\* variant of option_validate_json: T's error is wrapped in an
\* InnerErrorForType of the Option
option_validate_json_wrapping(T, j) ==
    IF j = Null THEN Ok(Unit)
    ELSE IF is_err(validate_json(T[2], j))
    THEN Err(InnerErrorForType(type_name(T), validate_json(T[2], j)[2]))
    ELSE validate_json(T[2], j)

\* impl Jsonable for Option<T>: validate_json
option_validate_json(T, j) ==
    IF j = Null THEN Ok(Unit) ELSE validate_json(T[2], j)

\* variant of vec_validate_json: the first failing entry's own error is
\* returned
vec_validate_json_entry_error(T, j) ==
    IF kind(j) = "array"
    THEN IF entries_panic(T[2], j[2]) THEN Panic
         ELSE IF entries_all_ok(T[2], j[2]) THEN Ok(Unit)
         ELSE validate_json(T[2], j[2][CHOOSE i \in 1..Len(j[2]) :
                                          /\ is_err(validate_json(T[2], j[2][i]))
                                          /\ \A k \in 1..(i - 1) :
                                                is_ok(validate_json(T[2], j[2][k]))])
    ELSE Err(IncompatibleJsonType(kind(j), "array"))

\* impl Jsonable for Vec<T>: validate_json
vec_validate_json(T, j) ==
    IF kind(j) = "array"
    THEN IF entries_panic(T[2], j[2]) THEN Panic
         ELSE IF entries_all_ok(T[2], j[2]) THEN Ok(Unit)
         ELSE Err(IncompatibleEntryForType(type_name(T[2])))
    ELSE Err(IncompatibleJsonType(kind(j), "array"))

\* impl Jsonable for HashSet<T>: validate_json delegates to Vec<T>
hashset_validate_json(T, j) == vec_validate_json(<<"Vec", T[2]>>, j)

\* impl Jsonable for HashMap<I, T>: validate_json
hashmap_validate_json(T, j) ==
    IF kind(j) = "object"
    THEN LET values == [i \in 1..Len(j[2]) |-> j[2][i][2]]
         IN IF entries_panic(T[2], values) THEN Panic
            ELSE IF entries_all_ok(T[2], values) THEN Ok(Unit)
            ELSE Err(IncompatibleEntryForType(type_name(T[2])))
    ELSE Err(IncompatibleJsonType(kind(j), "object"))

\* variant of array_validate_json: the entries are checked before the length
array_validate_json_entries_first(T, j) ==
    IF kind(j) = "array"
    THEN IF entries_panic(T[2], j[2]) THEN Panic
         ELSE IF entries_all_ok(T[2], j[2])
         THEN IF Len(j[2]) = T[3] THEN Ok(Unit)
              ELSE Err(InvalidArrayLength(Len(j[2]), T[3]))
         ELSE Err(IncompatibleEntryForType(type_name(T[2])))
    ELSE Err(IncompatibleJsonType(kind(j), "array"))

\* impl Jsonable for [T; N]: validate_json
array_validate_json(T, j) ==
    IF kind(j) = "array"
    THEN IF Len(j[2]) = T[3]
         THEN IF entries_panic(T[2], j[2]) THEN Panic
              ELSE IF entries_all_ok(T[2], j[2]) THEN Ok(Unit)
              ELSE Err(IncompatibleEntryForType(type_name(T[2])))
         ELSE Err(InvalidArrayLength(Len(j[2]), T[3]))
    ELSE Err(IncompatibleJsonType(kind(j), "array"))

\* variant of struct_validate_fields: every field is checked and the last
\* failing field's error is the one returned
struct_validate_fields_last_error(keys, types, map, i) ==
    LET r(n) == validate_json(types[n], unwrap_or(map_get(map, keys[n]), Null))
        failing == {n \in i..Len(keys) : is_err(r(n))}
        last == CHOOSE n \in failing : \A m \in failing : m <= n
    IN IF \E n \in i..Len(keys) : r(n) = Panic THEN Panic
       ELSE IF failing = {} THEN Ok(Unit)
       ELSE Err(InnerErrorForType(type_name(types[last]), r(last)[2]))

\* structs.rs: the per-field validate_json parts of a named or tuple struct,
\* run in declaration order; the first failing field returns.
\* keys[i] is the object key of field i, types[i] its type.
struct_validate_fields(keys, types, map, i) ==
    IF i > Len(keys) THEN Ok(Unit)
    ELSE LET r == validate_json(types[i], unwrap_or(map_get(map, keys[i]), Null))
         IN IF r = Panic THEN Panic
            ELSE IF is_ok(r) THEN struct_validate_fields(keys, types, map, i + 1)
            ELSE Err(InnerErrorForType(type_name(types[i]), r[2]))

\* variant of named_struct_validate_json: a failing field's error is returned
\* as it is, without the InnerErrorForType around it
named_struct_validate_json_untagged(T, j) ==
    IF kind(j) = "object"
    THEN LET r == struct_validate_fields(
                      [i \in 1..Len(fields_of(T)) |-> fields_of(T)[i][1]],
                      [i \in 1..Len(fields_of(T)) |-> fields_of(T)[i][2]], j[2], 1)
         IN IF is_err(r) THEN Err(r[2][3]) ELSE r
    ELSE Err(IncompatibleJsonType(kind(j), "object"))

\* structs.rs implement_named: validate_json
named_struct_validate_json(T, j) ==
    IF kind(j) = "object"
    THEN struct_validate_fields([i \in 1..Len(fields_of(T)) |-> fields_of(T)[i][1]],
                                [i \in 1..Len(fields_of(T)) |-> fields_of(T)[i][2]],
                                j[2], 1)
    ELSE Err(IncompatibleJsonType(kind(j), "object"))

\* structs.rs implement_unnamed: validate_json
tuple_struct_validate_json(T, j) ==
    IF kind(j) = "object"
    THEN struct_validate_fields([i \in 1..Len(fields_of(T)) |-> index_key(i - 1)],
                                fields_of(T), j[2], 1)
    ELSE Err(IncompatibleJsonType(kind(j), "object"))

\* variant of unit_struct_validate_json: only the empty Object is accepted
unit_struct_validate_json_empty_only(T, j) ==
    IF kind(j) = "object" /\ Len(j[2]) = 0 THEN Ok(Unit)
    ELSE Err(IncompatibleJsonType(kind(j), "object"))

\* structs.rs implement_unit: validate_json
unit_struct_validate_json(T, j) ==
    IF kind(j) = "object" THEN Ok(Unit)
    ELSE Err(IncompatibleJsonType(kind(j), "object"))

RECURSIVE named_validate_parts_absent_as_null(_, _, _, _, _)
\* variant of named_validate_parts: an absent key is validated as Null, as
\* the fields of a struct are
named_validate_parts_absent_as_null(ident_str, fields, inner_map, i, errors) ==
    IF i > Len(fields) THEN Ok(errors)
    ELSE LET r == validate_json(fields[i][2],
                                unwrap_or(map_get(inner_map, fields[i][1]), Null))
         IN IF r = Panic THEN Panic
            ELSE IF is_ok(r)
            THEN named_validate_parts_absent_as_null(ident_str, fields, inner_map, i + 1,
                                                     errors)
            ELSE named_validate_parts_absent_as_null(ident_str, fields, inner_map, i + 1,
                     Append(errors, InnerErrorForType(type_name(fields[i][2]), r[2])))

\* enums.rs implement_named: validate_parts, run for every field; the result
\* is the list of errors pushed
named_validate_parts(ident_str, fields, inner_map, i, errors) ==
    IF i > Len(fields) THEN Ok(errors)
    ELSE LET got == map_get(inner_map, fields[i][1])
         IN IF got # None
            THEN LET r == validate_json(fields[i][2], got[2])
                 IN IF r = Panic THEN Panic
                    ELSE IF is_ok(r)
                    THEN named_validate_parts(ident_str, fields, inner_map, i + 1, errors)
                    ELSE named_validate_parts(ident_str, fields, inner_map, i + 1,
                             Append(errors, InnerErrorForType(type_name(fields[i][2]), r[2])))
            ELSE named_validate_parts(ident_str, fields, inner_map, i + 1,
                     Append(errors, MissingKeyForEnumVariant(ident_str, fields[i][1])))

\* variant of named_validate: only the first error pushed is returned
named_validate_first_error(T, variant, map) ==
    LET ident_str == variant[1]
        field_count == Len(variant[3])
        inner == map_get(map, ident_str)
    IN IF inner = None THEN Panic
       ELSE IF as_object(inner[2]) # None
       THEN LET inner_map == as_object(inner[2])[2]
            IN IF Len(inner_map) = field_count
               THEN LET errors == named_validate_parts(ident_str, variant[3], inner_map, 1, <<>>)
                    IN IF errors = Panic THEN Panic
                       ELSE IF Len(errors[2]) > 0
                       THEN Err(InnerErrorsForType(type_ident(T), <<errors[2][1]>>))
                       ELSE Ok(Unit)
               ELSE Err(IncorrectFieldCountForEnum(type_ident(T), ident_str, field_count))
       ELSE Err(IncompatibleJsonType("other", "object"))

\* enums.rs implement_named: the validate block of a named-field variant,
\* entered when the object has the variant's key
named_validate(T, variant, map) ==
    LET ident_str == variant[1]
        field_count == Len(variant[3])
        inner == map_get(map, ident_str)
    IN IF inner = None THEN Panic
       ELSE IF as_object(inner[2]) # None
       THEN LET inner_map == as_object(inner[2])[2]
            IN IF Len(inner_map) = field_count
               THEN LET errors == named_validate_parts(ident_str, variant[3], inner_map, 1, <<>>)
                    IN IF errors = Panic THEN Panic
                       ELSE IF Len(errors[2]) > 0
                       THEN Err(InnerErrorsForType(type_ident(T), errors[2]))
                       ELSE Ok(Unit)
               ELSE Err(IncorrectFieldCountForEnum(type_ident(T), ident_str, field_count))
       ELSE Err(IncompatibleJsonType("other", "object"))

\* enums.rs implement_unnamed (count > 1): validate_parts; idx is 0-based
unnamed_validate_parts(types, array, idx, errors) ==
    IF idx >= Len(types) THEN Ok(errors)
    ELSE IF idx >= Len(array) THEN Panic
    ELSE LET r == validate_json(types[idx + 1], array[idx + 1])
         IN IF r = Panic THEN Panic
            ELSE IF is_ok(r) THEN unnamed_validate_parts(types, array, idx + 1, errors)
            ELSE unnamed_validate_parts(types, array, idx + 1,
                     Append(errors, InnerErrorForType(type_name(types[idx + 1]), r[2])))

\* variant of unnamed_validate: the array's length is not compared with count
unnamed_validate_unsized(T, variant, map) ==
    LET ident_str == variant[1]
        inner == map_get(map, ident_str)
    IN IF inner = None THEN Panic
       ELSE IF as_array(inner[2]) # None
       THEN LET errors == unnamed_validate_parts(variant[3], as_array(inner[2])[2], 0, <<>>)
            IN IF errors = Panic THEN Panic
               ELSE IF Len(errors[2]) > 0
               THEN Err(InnerErrorsForType(type_ident(T), errors[2]))
               ELSE Ok(Unit)
       ELSE Err(IncompatibleJsonType("other", "array"))

\* variant of unnamed_validate: IncorrectFieldCountForEnum carries the length
\* of the array found
unnamed_validate_counting_found(T, variant, map) ==
    LET ident_str == variant[1]
        count == Len(variant[3])
        inner == map_get(map, ident_str)
    IN IF inner = None THEN Panic
       ELSE IF as_array(inner[2]) # None
       THEN LET array == as_array(inner[2])[2]
            IN IF Len(array) = count
               THEN LET errors == unnamed_validate_parts(variant[3], array, 0, <<>>)
                    IN IF errors = Panic THEN Panic
                       ELSE IF Len(errors[2]) > 0
                       THEN Err(InnerErrorsForType(type_ident(T), errors[2]))
                       ELSE Ok(Unit)
               ELSE Err(IncorrectFieldCountForEnum(type_ident(T), ident_str, Len(array)))
       ELSE Err(IncompatibleJsonType("other", "array"))

\* enums.rs implement_unnamed (count > 1): the validate block of a variant with
\* two or more positional fields
unnamed_validate(T, variant, map) ==
    LET ident_str == variant[1]
        count == Len(variant[3])
        inner == map_get(map, ident_str)
    IN IF inner = None THEN Panic
       ELSE IF as_array(inner[2]) # None
       THEN LET array == as_array(inner[2])[2]
            IN IF Len(array) = count
               THEN LET errors == unnamed_validate_parts(variant[3], array, 0, <<>>)
                    IN IF errors = Panic THEN Panic
                       ELSE IF Len(errors[2]) > 0
                       THEN Err(InnerErrorsForType(type_ident(T), errors[2]))
                       ELSE Ok(Unit)
               ELSE Err(IncorrectFieldCountForEnum(type_ident(T), ident_str, count))
       ELSE Err(IncompatibleJsonType("other", "array"))

\* variant of single_validate: the field's failure is pushed on a list and the
\* list is returned, as the variants with several fields do
single_validate_listing(T, variant, map) ==
    LET ident_str == variant[1]
        inner_json == map_get(map, ident_str)
    IN IF inner_json = None THEN Panic
       ELSE LET r == validate_json(variant[3][1], inner_json[2])
            IN IF r = Panic THEN Panic
               ELSE IF is_ok(r) THEN Ok(Unit)
               ELSE Err(InnerErrorsForType(type_ident(T),
                        <<InnerErrorForType(type_name(variant[3][1]), r[2])>>))

\* enums.rs implement_unnamed (one field): the validate block; Ok falls through
\* to the blocks of the later variants with has_key set
single_validate(T, variant, map) ==
    LET ident_str == variant[1]
        inner_json == map_get(map, ident_str)
    IN IF inner_json = None THEN Panic
       ELSE LET r == validate_json(variant[3][1], inner_json[2])
            IN IF r = Panic THEN Panic
               ELSE IF is_ok(r) THEN Ok(Unit)
               ELSE Err(InnerErrorForType(ident_str,
                        InnerErrorForType(type_name(variant[3][1]), r[2])))

RECURSIVE validate_json_object_unit_keys(_, _, _, _)
\* variant of validate_json_object: the key of a unit variant sets has_key too
validate_json_object_unit_keys(T, map, i, has_key) ==
    IF i > Len(variants_of(T))
    THEN IF ~has_key
         THEN IF keys_last(map) = None THEN Panic
              ELSE Err(IncorrectKeyForEnum(type_ident(T), keys_last(map)[2]))
         ELSE Ok(Unit)
    ELSE LET variant == variants_of(T)[i]
         IN IF variant[2] = "Unit"
            THEN validate_json_object_unit_keys(T, map, i + 1,
                                                has_key \/ contains_key(map, variant[1]))
            ELSE IF ~has_key /\ contains_key(map, variant[1])
            THEN IF variant[2] = "Named" THEN named_validate(T, variant, map)
                 ELSE IF Len(variant[3]) > 1 THEN unnamed_validate(T, variant, map)
                 ELSE LET r == single_validate(T, variant, map)
                      IN IF r = Panic \/ is_err(r) THEN r
                         ELSE validate_json_object_unit_keys(T, map, i + 1, TRUE)
            ELSE validate_json_object_unit_keys(T, map, i + 1, has_key)

\* enums.rs implement: validate_json, Object arm with map.len() == 1: the
\* variants' blocks in declaration order from block i on, then the has_key test
validate_json_object(T, map, i, has_key) ==
    IF i > Len(variants_of(T))
    THEN IF ~has_key
         THEN IF keys_last(map) = None THEN Panic
              ELSE Err(IncorrectKeyForEnum(type_ident(T), keys_last(map)[2]))
         ELSE Ok(Unit)
    ELSE LET variant == variants_of(T)[i]
         IN IF variant[2] # "Unit" /\ ~has_key /\ contains_key(map, variant[1])
            THEN IF variant[2] = "Named" THEN named_validate(T, variant, map)
                 ELSE IF Len(variant[3]) > 1 THEN unnamed_validate(T, variant, map)
                 ELSE LET r == single_validate(T, variant, map)
                      IN IF r = Panic \/ is_err(r) THEN r
                         ELSE validate_json_object(T, map, i + 1, TRUE)
            ELSE validate_json_object(T, map, i + 1, has_key)

\* variant of enum_validate_json: an object is only required not to be empty
enum_validate_json_nonempty(T, j) ==
    CASE kind(j) = "object" ->
           IF Len(j[2]) >= 1
           THEN validate_json_object(T, j[2], 1, FALSE)
           ELSE Err(IncorrectObjectKeyCountForEnum(type_ident(T), Len(j[2])))
      [] kind(j) = "string" ->
           IF \E i \in 1..Len(expected_string_types(T)) : expected_string_types(T)[i] = j[2]
           THEN Ok(Unit)
           ELSE Err(InvalidEnumStringVariant(type_ident(T), j[2], expected_string_types(T)))
      [] OTHER -> Err(IncompatibleJsonType(kind(j), "object or string"))

\* enums.rs implement: validate_json
enum_validate_json(T, j) ==
    CASE kind(j) = "object" ->
           IF Len(j[2]) = 1
           THEN validate_json_object(T, j[2], 1, FALSE)
           ELSE Err(IncorrectObjectKeyCountForEnum(type_ident(T), Len(j[2])))
      [] kind(j) = "string" ->
           IF \E i \in 1..Len(expected_string_types(T)) : expected_string_types(T)[i] = j[2]
           THEN Ok(Unit)
           ELSE Err(InvalidEnumStringVariant(type_ident(T), j[2], expected_string_types(T)))
      [] OTHER -> Err(IncompatibleJsonType(kind(j), "object or string"))

\* Jsonable::validate_json, dispatched on the implementing type
validate_json(T, j) ==
    CASE T[1] \in NumberTypes -> number_validate_json(T, j)
      [] T[1] = "String" -> string_validate_json(j)
      [] T[1] = "Option" -> option_validate_json(T, j)
      [] T[1] = "Vec" -> vec_validate_json(T, j)
      [] T[1] = "HashSet" -> hashset_validate_json(T, j)
      [] T[1] = "HashMap" -> hashmap_validate_json(T, j)
      [] T[1] = "Array" -> array_validate_json(T, j)
      [] T[1] = "NamedStruct" -> named_struct_validate_json(T, j)
      [] T[1] = "TupleStruct" -> tuple_struct_validate_json(T, j)
      [] T[1] = "UnitStruct" -> unit_struct_validate_json(T, j)
      [] T[1] = "Enum" -> enum_validate_json(T, j)

(***************************************************************************)
(* from_json_unchecked.  A typed value is a tagged tuple too:               *)
(*   <<"u8",n>> .. <<"f64",halves>>  <<"String",s>>  None  Some(x)         *)
(*   <<"Vec",seq>>  <<"Array",seq>>  <<"HashSet",set>>                     *)
(*   <<"HashMap",set of <<key,x>>>>  <<"Struct",name,seq of field values>> *)
(*   <<"Variant",enum name,variant name,seq of field values>>              *)
(* The result is Panic when the call panics.                               *)
(***************************************************************************)
\* variant of cast: a value out of the target's range saturates at the
\* nearest bound instead of wrapping
cast_saturating(T, n) ==
    CASE T[1] = "u8" -> IF n > 255 THEN 255 ELSE n
      [] T[1] = "u16" -> IF n > 65535 THEN 65535 ELSE n
      [] T[1] = "i8" -> IF n > 127 THEN 127 ELSE IF n < -128 THEN -128 ELSE n
      [] T[1] = "i16" -> IF n > 32767 THEN 32767 ELSE IF n < -32768 THEN -32768 ELSE n
      [] OTHER -> n

\* the `as $ty` cast of number_impl!.  Every modelled number lies within
\* the 32- and 64-bit ranges, where the cast changes nothing.
cast(T, n) ==
    CASE T[1] = "u8" -> n % 256
      [] T[1] = "u16" -> n % 65536
      [] T[1] = "i8" -> ((n + 128) % 256) - 128
      [] T[1] = "i16" -> ((n + 32768) % 65536) - 32768
      [] OTHER -> n

RECURSIVE from_json_unchecked(_, _)
RECURSIVE from_unchecked_parts(_, _, _)

\* the entries converted one by one; Panic when one of them panics
entries_from_json_unchecked(T, vec) ==
    IF \E i \in 1..Len(vec) : from_json_unchecked(T, vec[i]) = Panic THEN Panic
    ELSE Ok([i \in 1..Len(vec) |-> from_json_unchecked(T, vec[i])])

\* number_impl!: from_json_unchecked
number_from_json_unchecked(T, j) ==
    LET read == CASE method(T) = "as_u64" -> as_u64(j)
                  [] method(T) = "as_i64" -> as_i64(j)
                  [] method(T) = "as_f64" -> as_f64(j)
    IN IF read = None THEN Panic ELSE <<T[1], cast(T, read[2])>>

\* impl Jsonable for String: from_json_unchecked
string_from_json_unchecked(j) ==
    IF as_str(j) = None THEN Panic ELSE <<"String", as_str(j)[2]>>

\* impl Jsonable for Option<T>: from_json_unchecked
option_from_json_unchecked(T, j) ==
    IF j = Null THEN None
    ELSE LET x == from_json_unchecked(T[2], j)
         IN IF x = Panic THEN Panic ELSE Some(x)

\* impl Jsonable for Vec<T>: from_json_unchecked
vec_from_json_unchecked(T, j) ==
    IF as_array(j) = None THEN Panic
    ELSE LET xs == entries_from_json_unchecked(T[2], as_array(j)[2])
         IN IF xs = Panic THEN Panic ELSE <<"Vec", xs[2]>>

\* variant of hashset_from_json_unchecked: only the first element is inserted
hashset_from_json_unchecked_first_only(T, j) ==
    IF as_array(j) = None THEN Panic
    ELSE LET xs == entries_from_json_unchecked(T[2], as_array(j)[2])
         IN IF xs = Panic THEN Panic
            ELSE <<"HashSet", {xs[2][i] : i \in 1..(IF Len(xs[2]) > 0 THEN 1 ELSE 0)}>>

\* impl Jsonable for HashSet<T>: from_json_unchecked
hashset_from_json_unchecked(T, j) ==
    IF as_array(j) = None THEN Panic
    ELSE LET xs == entries_from_json_unchecked(T[2], as_array(j)[2])
         IN IF xs = Panic THEN Panic
            ELSE <<"HashSet", {xs[2][i] : i \in 1..Len(xs[2])}>>

\* impl Jsonable for HashMap<I, T>: from_json_unchecked
hashmap_from_json_unchecked(T, j) ==
    IF as_object(j) = None THEN Panic
    ELSE LET obj == as_object(j)[2]
             xs == entries_from_json_unchecked(T[2], [i \in 1..Len(obj) |-> obj[i][2]])
         IN IF xs = Panic THEN Panic
            ELSE <<"HashMap", {<<obj[i][1], xs[2][i]>> : i \in 1..Len(obj)}>>

\* variant of array_from_json_unchecked: the collected Vec is not checked
\* against N
array_from_json_unchecked_unsized(T, j) ==
    IF as_array(j) = None THEN Panic
    ELSE LET xs == entries_from_json_unchecked(T[2], as_array(j)[2])
         IN IF xs = Panic THEN Panic ELSE <<"Array", xs[2]>>

\* impl Jsonable for [T; N]: from_json_unchecked
array_from_json_unchecked(T, j) ==
    IF as_array(j) = None THEN Panic
    ELSE LET xs == entries_from_json_unchecked(T[2], as_array(j)[2])
         IN IF xs = Panic THEN Panic
            ELSE IF Len(xs[2]) # T[3] THEN Panic
            ELSE <<"Array", xs[2]>>

\* variant of struct_from_json_unchecked: a field whose key is absent is
\* unwrapped instead of being read as Null
struct_from_json_unchecked_strict(T, keys, types, j) ==
    IF as_object(j) = None THEN Panic
    ELSE LET inner_json == as_object(j)[2]
             field(i) == IF map_get(inner_json, keys[i]) = None THEN Panic
                         ELSE from_json_unchecked(types[i], map_get(inner_json, keys[i])[2])
         IN IF \E i \in 1..Len(keys) : field(i) = Panic THEN Panic
            ELSE <<"Struct", type_ident(T), [i \in 1..Len(keys) |-> field(i)]>>

\* structs.rs: the field initialisers of a named or tuple struct
struct_from_json_unchecked(T, keys, types, j) ==
    IF as_object(j) = None THEN Panic
    ELSE LET inner_json == as_object(j)[2]
             field(i) == from_json_unchecked(types[i],
                             unwrap_or(map_get(inner_json, keys[i]), Null))
         IN IF \E i \in 1..Len(keys) : field(i) = Panic THEN Panic
            ELSE <<"Struct", type_ident(T), [i \in 1..Len(keys) |-> field(i)]>>

\* structs.rs implement_named: from_json_unchecked
named_struct_from_json_unchecked(T, j) ==
    struct_from_json_unchecked(T, [i \in 1..Len(fields_of(T)) |-> fields_of(T)[i][1]],
                               [i \in 1..Len(fields_of(T)) |-> fields_of(T)[i][2]], j)

\* variant of tuple_struct_from_json_unchecked: the fields are read from
\* 1-based keys
tuple_struct_from_json_unchecked_one_based(T, j) ==
    struct_from_json_unchecked(T, [i \in 1..Len(fields_of(T)) |-> index_key(i)],
                               fields_of(T), j)

\* structs.rs implement_unnamed: from_json_unchecked
tuple_struct_from_json_unchecked(T, j) ==
    struct_from_json_unchecked(T, [i \in 1..Len(fields_of(T)) |-> index_key(i - 1)],
                               fields_of(T), j)

\* structs.rs implement_unit: from_json_unchecked
unit_struct_from_json_unchecked(T, j) ==
    IF as_object(j) = None THEN Panic ELSE <<"Struct", type_ident(T), <<>>>>

\* variant of named_from_unchecked: a field whose key is absent is decoded
\* from Null, as the fields of a struct are
named_from_unchecked_absent_as_null(T, variant, map) ==
    LET removed == map_get(map, variant[1])
    IN IF removed = None THEN Panic
       ELSE IF as_object(removed[2]) = None THEN Panic
       ELSE LET inner_map == as_object(removed[2])[2]
                fields == variant[3]
                field(i) == from_json_unchecked(fields[i][2],
                                unwrap_or(map_get(inner_map, fields[i][1]), Null))
            IN IF \E i \in 1..Len(fields) : field(i) = Panic THEN Panic
               ELSE <<"Variant", type_ident(T), variant[1],
                      [i \in 1..Len(fields) |-> field(i)]>>

\* enums.rs implement_named: the from_unchecked arm of a named-field variant
named_from_unchecked(T, variant, map) ==
    LET removed == map_get(map, variant[1])
    IN IF removed = None THEN Panic
       ELSE IF as_object(removed[2]) = None THEN Panic
       ELSE LET inner_map == as_object(removed[2])[2]
                fields == variant[3]
                field(i) == IF map_get(inner_map, fields[i][1]) = None THEN Panic
                            ELSE from_json_unchecked(fields[i][2],
                                     map_get(inner_map, fields[i][1])[2])
            IN IF \E i \in 1..Len(fields) : field(i) = Panic THEN Panic
               ELSE <<"Variant", type_ident(T), variant[1],
                      [i \in 1..Len(fields) |-> field(i)]>>

\* enums.rs implement_unnamed (count > 1): from_unchecked_parts, evaluated left
\* to right; each takes array.pop(), the last remaining element.
\* The result is the field values from field i on.
from_unchecked_parts(types, array, i) ==
    IF i > Len(types) THEN Ok(<<>>)
    ELSE IF Len(array) = 0 THEN Panic
    ELSE LET x == from_json_unchecked(types[i], array[Len(array)])
             rest == from_unchecked_parts(types, SubSeq(array, 1, Len(array) - 1), i + 1)
         IN IF x = Panic \/ rest = Panic THEN Panic
            ELSE Ok(<<x>> \o rest[2])

\* enums.rs implement_unnamed (count > 1): the from_unchecked arm
unnamed_from_unchecked(T, variant, map) ==
    LET removed == map_get(map, variant[1])
        count == Len(variant[3])
    IN IF removed = None THEN Panic
       ELSE IF as_array(removed[2]) = None THEN Panic
       ELSE LET array == as_array(removed[2])[2]
            IN IF Len(array) = count
               THEN LET xs == from_unchecked_parts(variant[3], array, 1)
                    IN IF xs = Panic THEN Panic
                       ELSE <<"Variant", type_ident(T), variant[1], xs[2]>>
               ELSE Panic

\* enums.rs implement_unnamed (one field): the from_unchecked arm
single_from_unchecked(T, variant, map) ==
    LET x == from_json_unchecked(variant[3][1], unwrap_or(map_get(map, variant[1]), Null))
    IN IF x = Panic THEN Panic ELSE <<"Variant", type_ident(T), variant[1], <<x>>>>

\* enums.rs implement: from_json_unchecked
enum_from_json_unchecked(T, j) ==
    CASE kind(j) = "string" ->
           IF \E i \in 1..Len(expected_string_types(T)) : expected_string_types(T)[i] = j[2]
           THEN <<"Variant", type_ident(T), j[2], <<>>>>
           ELSE Panic
      [] kind(j) = "object" ->
           IF keys_last(j[2]) = None THEN Panic
           ELSE LET key == keys_last(j[2])[2]
                    arms == {i \in 1..Len(variants_of(T)) :
                                /\ variants_of(T)[i][2] # "Unit"
                                /\ variants_of(T)[i][1] = key}
                IN IF arms = {} THEN Panic
                   ELSE LET variant == variants_of(T)[CHOOSE i \in arms : TRUE]
                        IN IF variant[2] = "Named" THEN named_from_unchecked(T, variant, j[2])
                           ELSE IF Len(variant[3]) > 1
                           THEN unnamed_from_unchecked(T, variant, j[2])
                           ELSE single_from_unchecked(T, variant, j[2])
      [] OTHER -> Panic

\* Jsonable::from_json_unchecked, dispatched on the implementing type
from_json_unchecked(T, j) ==
    CASE T[1] \in NumberTypes -> number_from_json_unchecked(T, j)
      [] T[1] = "String" -> string_from_json_unchecked(j)
      [] T[1] = "Option" -> option_from_json_unchecked(T, j)
      [] T[1] = "Vec" -> vec_from_json_unchecked(T, j)
      [] T[1] = "HashSet" -> hashset_from_json_unchecked(T, j)
      [] T[1] = "HashMap" -> hashmap_from_json_unchecked(T, j)
      [] T[1] = "Array" -> array_from_json_unchecked(T, j)
      [] T[1] = "NamedStruct" -> named_struct_from_json_unchecked(T, j)
      [] T[1] = "TupleStruct" -> tuple_struct_from_json_unchecked(T, j)
      [] T[1] = "UnitStruct" -> unit_struct_from_json_unchecked(T, j)
      [] T[1] = "Enum" -> enum_from_json_unchecked(T, j)

\* Jsonable::from_json (provided method): validate, then convert.
\* The result is <<what validate_json returned, what from_json_unchecked
\* returned or NotCalled, what from_json returns>>.
NotCalled == <<"NotCalled">>

from_json(T, j) ==
    LET v == validate_json(T, j)
    IN IF v = Panic THEN <<v, NotCalled, Panic>>
       ELSE IF is_ok(v)
       THEN LET x == from_json_unchecked(T, j)
            IN <<v, x, IF x = Panic THEN Panic ELSE Ok(x)>>
       ELSE <<v, NotCalled, Err(v[2])>>

(***************************************************************************)
(* to_json.  HashSet and HashMap iterate in an unspecified order, so        *)
(* to_json(T, v) is the set of Values the call may return.                 *)
(***************************************************************************)
RECURSIVE seq_choices(_)
\* the sequences whose i-th element is drawn from S[i]
seq_choices(S) ==
    IF Len(S) = 0 THEN {<<>>}
    ELSE {<<h>> \o t : h \in S[1], t \in seq_choices(Tail(S))}

\* the orders in which the members of a set may be iterated
iteration_orders(S) ==
    {p \in [1..Cardinality(S) -> S] : \A a, b \in 1..Cardinality(S) : p[a] = p[b] => a = b}

\* the declaration of the variant a value is of
variant_named(T, name) ==
    variants_of(T)[CHOOSE i \in 1..Len(variants_of(T)) : variants_of(T)[i][1] = name]

RECURSIVE to_json(_, _)

\* number_impl!: to_json, Value::from(*self)
number_to_json(T, v) ==
    IF method(T) = "as_f64" THEN {Number("Float", v[2])}
    ELSE IF v[2] < 0 THEN {Number("NegInt", v[2])}
    ELSE {Number("PosInt", v[2])}

\* impl Jsonable for String: to_json
string_to_json(v) == {String(v[2])}

\* variant of option_to_json: Some(x) is encoded as the one-element Array of
\* the encoding of x
option_to_json_boxed(T, v) ==
    IF v = None THEN {Null} ELSE {Array(<<e>>) : e \in to_json(T[2], v[2])}

\* impl Jsonable for Option<T>: to_json
option_to_json(T, v) == IF v = None THEN {Null} ELSE to_json(T[2], v[2])

\* variant of vec_to_json: the entries are pushed last to first
vec_to_json_reversed(T, v) ==
    {Array(a) : a \in seq_choices([i \in 1..Len(v[2]) |->
                                      to_json(T[2], v[2][Len(v[2]) + 1 - i])])}

\* impl Jsonable for Vec<T> and for [T; N]: to_json
vec_to_json(T, v) ==
    {Array(a) : a \in seq_choices([i \in 1..Len(v[2]) |-> to_json(T[2], v[2][i])])}

\* impl Jsonable for HashSet<T>: to_json
hashset_to_json(T, v) ==
    UNION {{Array(a) : a \in seq_choices([i \in 1..Len(p) |-> to_json(T[2], p[i])])} :
              p \in iteration_orders(v[2])}

\* impl Jsonable for HashMap<I, T>: to_json
hashmap_to_json(T, v) ==
    UNION {{Object([i \in 1..Len(a) |-> <<p[i][1], a[i]>>]) :
               a \in seq_choices([i \in 1..Len(p) |-> to_json(T[2], p[i][2])])} :
              p \in iteration_orders(v[2])}

\* structs.rs: to_json of a named or tuple struct, one insert per field
struct_to_json(keys, types, v) ==
    {Object([i \in 1..Len(a) |-> <<keys[i], a[i]>>]) :
        a \in seq_choices([i \in 1..Len(keys) |-> to_json(types[i], v[i])])}

\* structs.rs implement_named: to_json
named_struct_to_json(T, v) ==
    struct_to_json([i \in 1..Len(fields_of(T)) |-> fields_of(T)[i][1]],
                   [i \in 1..Len(fields_of(T)) |-> fields_of(T)[i][2]], v[3])

\* structs.rs implement_unnamed: to_json
tuple_struct_to_json(T, v) ==
    struct_to_json([i \in 1..Len(fields_of(T)) |-> index_key(i - 1)], fields_of(T), v[3])

\* structs.rs implement_unit: to_json
unit_struct_to_json(T, v) == {Object(<<>>)}

\* enums.rs implement_named: the to_json arm of a named-field variant
named_to_json(variant, v) ==
    {Object(<< <<variant[1], inner>> >>) :
        inner \in struct_to_json([i \in 1..Len(variant[3]) |-> variant[3][i][1]],
                                 [i \in 1..Len(variant[3]) |-> variant[3][i][2]], v[4])}

\* enums.rs implement_unnamed (count > 1): the to_json arm
unnamed_to_json(variant, v) ==
    {Array(a) : a \in seq_choices([i \in 1..Len(variant[3]) |-> to_json(variant[3][i], v[4][i])])}

\* enums.rs implement_unnamed (one field): the to_json arm
single_to_json(variant, v) ==
    {Object(<< <<variant[1], x>> >>) : x \in to_json(variant[3][1], v[4][1])}

\* enums.rs implement: to_json
enum_to_json(T, v) ==
    LET variant == variant_named(T, v[3])
    IN IF variant[2] = "Unit" THEN {String(variant[1])}
       ELSE IF variant[2] = "Named" THEN named_to_json(variant, v)
       ELSE IF Len(variant[3]) > 1 THEN unnamed_to_json(variant, v)
       ELSE single_to_json(variant, v)

\* Jsonable::to_json, dispatched on the implementing type
to_json(T, v) ==
    CASE T[1] \in NumberTypes -> number_to_json(T, v)
      [] T[1] = "String" -> string_to_json(v)
      [] T[1] = "Option" -> option_to_json(T, v)
      [] T[1] = "Vec" -> vec_to_json(T, v)
      [] T[1] = "HashSet" -> hashset_to_json(T, v)
      [] T[1] = "HashMap" -> hashmap_to_json(T, v)
      [] T[1] = "Array" -> vec_to_json(T, v)
      [] T[1] = "NamedStruct" -> named_struct_to_json(T, v)
      [] T[1] = "TupleStruct" -> tuple_struct_to_json(T, v)
      [] T[1] = "UnitStruct" -> unit_struct_to_json(T, v)
      [] T[1] = "Enum" -> enum_to_json(T, v)

(***************************************************************************)
(* The types the operations are applied to: the generic impls at the       *)
(* instances of the unit tests, and derived structs and enums shaped after *)
(* the crate documentation, the ui tests and the example.                  *)
(***************************************************************************)
U8 == <<"u8">>

U16 == <<"u16">>

U32 == <<"u32">>

I8 == <<"i8">>

F32 == <<"f32">>

F64 == <<"f64">>

StringT == <<"String">>

OptionT(T) == <<"Option", T>>

VecT(T) == <<"Vec", T>>

HashSetT(T) == <<"HashSet", T>>

HashMapT(T) == <<"HashMap", T>>

ArrayT(T, N) == <<"Array", T, N>>

\* struct Person { first_name: String, last_name: Option<String> }
Person ==
    <<"NamedStruct", "Person",
      << <<"first_name", StringT>>, <<"last_name", OptionT(StringT)>> >> >>

\* struct Pair(u8, String);
Pair == <<"TupleStruct", "Pair", <<U8, StringT>> >>

\* struct Marker;
Marker == <<"UnitStruct", "Marker">>

\* enum Simple { Value, Value2 }
Simple == <<"Enum", "Simple", << <<"Value", "Unit">>, <<"Value2", "Unit">> >> >>

\* enum TestEnum { Value, Value2, Anonymouse(f64, String), Multiple(u32, u16),
\*                 Named{field1: f64}, NamedMultiple{field1: f64, field2: Option<Simple>},
\*                 Float(f32), OptionalSingle(Option<u32>) }
TestEnum ==
    <<"Enum", "TestEnum",
      << <<"Value", "Unit">>,
         <<"Value2", "Unit">>,
         <<"Anonymouse", "Unnamed", <<F64, StringT>> >>,
         <<"Multiple", "Unnamed", <<U32, U16>> >>,
         <<"Named", "Named", << <<"field1", F64>> >> >>,
         <<"NamedMultiple", "Named",
           << <<"field1", F64>>, <<"field2", OptionT(Simple)>> >> >>,
         <<"Float", "Unnamed", <<F32>> >>,
         <<"OptionalSingle", "Unnamed", <<OptionT(U32)>> >> >> >>

Types ==
    {U8, I8, F64, StringT, OptionT(U8), OptionT(OptionT(U8)), VecT(U8),
     HashSetT(StringT), HashMapT(U8), ArrayT(U8, ArrayN),
     Person, Pair, Marker, Simple, TestEnum}

(***************************************************************************)
(* The typed values handed to to_json.                                     *)
(***************************************************************************)
\* the keys of the HashMap values
MapKeys == {"0", "1"}

RECURSIVE ValuesOf(_)
ValuesOf(T) ==
    CASE T[1] \in {"u8", "u16", "u32", "u64"} -> {<<T[1], 1>>, <<T[1], 255>>}
      [] T[1] \in {"i8", "i16", "i32", "i64"} -> {<<T[1], -1>>, <<T[1], 1>>}
      [] T[1] \in {"f32", "f64"} -> {<<T[1], -3>>, <<T[1], 2>>}
      [] T[1] = "String" -> {<<"String", "Value">>, <<"String", "Other">>}
      [] T[1] = "Option" -> {None} \cup {Some(x) : x \in ValuesOf(T[2])}
      [] T[1] = "Vec" ->
           {<<"Vec", a>> : a \in UNION {[1..n -> ValuesOf(T[2])] : n \in 0..MaxElems}}
      [] T[1] = "HashSet" ->
           {<<"HashSet", S>> : S \in {S \in SUBSET ValuesOf(T[2]) : Cardinality(S) <= MaxElems}}
      [] T[1] = "HashMap" ->
           {<<"HashMap", {<<k, f[k]>> : k \in K}>> :
               K \in {K \in SUBSET MapKeys : Cardinality(K) <= MaxElems},
               f \in [MapKeys -> ValuesOf(T[2])]}
      [] T[1] = "Array" -> {<<"Array", a>> : a \in [1..T[3] -> ValuesOf(T[2])]}
      [] T[1] = "NamedStruct" ->
           {<<"Struct", T[2], a>> :
               a \in seq_choices([i \in 1..Len(T[3]) |-> ValuesOf(T[3][i][2])])}
      [] T[1] = "TupleStruct" ->
           {<<"Struct", T[2], a>> :
               a \in seq_choices([i \in 1..Len(T[3]) |-> ValuesOf(T[3][i])])}
      [] T[1] = "UnitStruct" -> {<<"Struct", T[2], <<>>>>}
      [] T[1] = "Enum" ->
           UNION {LET variant == T[3][n]
                  IN IF variant[2] = "Unit" THEN {<<"Variant", T[2], variant[1], <<>>>>}
                     ELSE IF variant[2] = "Named"
                     THEN {<<"Variant", T[2], variant[1], a>> :
                              a \in seq_choices([i \in 1..Len(variant[3]) |->
                                                    ValuesOf(variant[3][i][2])])}
                     ELSE {<<"Variant", T[2], variant[1], a>> :
                              a \in seq_choices([i \in 1..Len(variant[3]) |->
                                                    ValuesOf(variant[3][i])])} :
                  n \in 1..Len(T[3])}

(***************************************************************************)
(* The untrusted JSON values handed to validate_json, from_json_unchecked  *)
(* and from_json.  Objects list their keys in ascending byte order, the    *)
(* order of the Map both with and without serde_json's preserve_order.     *)
(***************************************************************************)
\* object keys in ascending byte order: struct fields, then enum variants
FieldKeys == <<"0", "1", "field1", "field2", "first_name", "last_name">>

VariantKeys ==
    <<"Anonymouse", "Float", "Multiple", "Named", "NamedMultiple", "OptionalSingle",
      "Other", "Value">>

Atoms ==
    {Null, Bool(TRUE), Number("PosInt", 1), Number("PosInt", 200), Number("PosInt", 300),
     Number("NegInt", -1), Number("Float", 3), String("Value"), String("Value2"),
     String("Other")}

\* the values found inside arrays and objects
Entries == {Null, Number("PosInt", 1), Number("NegInt", -1), String("Value")}

\* the members of a set of indices in ascending order
ascending(I) ==
    CHOOSE a \in [1..Cardinality(I) -> I] : \A m, n \in 1..Cardinality(I) : m < n => a[m] < a[n]

\* the objects with at most most keys out of keys and values out of vals
objects_over(keys, most, vals) ==
    UNION {{Object([n \in 1..Cardinality(I) |-> <<keys[ascending(I)[n]], f[ascending(I)[n]]>>]) :
               f \in [I -> vals]} :
              I \in {I \in SUBSET (1..Len(keys)) : Cardinality(I) <= most}}

Arrays == {Array(a) : a \in UNION {[1..n -> Entries] : n \in 0..MaxLen}}

FlatObjects == objects_over(FieldKeys, MaxKeys, Entries)

\* objects keyed by variant names: one key with any inner value, or several
\* keys with plain inner values
EnumObjects ==
    objects_over(VariantKeys, 1, Atoms \cup Arrays \cup FlatObjects)
        \cup objects_over(VariantKeys, MaxKeys, {Null, Number("PosInt", 1)})

JsonPool == Atoms \cup Arrays \cup FlatObjects \cup EnumObjects

(***************************************************************************)
(* The caller: it holds a type, a Value and a typed value, and calls the   *)
(* trait's functions.  from_json_unchecked and from_json take the Value by  *)
(* value, which leaves the caller's slot moved-from; validate_json borrows *)
(* it.                                                                     *)
(***************************************************************************)
Moved == <<"moved">>

NoValue == <<"NoValue">>

Init ==
    /\ ty \in Types
    /\ \/ json \in JsonPool /\ value = NoValue
       \/ json = Moved /\ value \in ValuesOf(ty)
    /\ arg = NoValue
    /\ calls = 0
    /\ vres = NotCalled
    /\ dres = NotCalled
    /\ fres = NotCalled
    /\ op = "new"

\* variant of ValidateJson: validation takes the entries out of an array as
\* HashSet's from_json_unchecked does
ValidateJson_draining ==
    /\ json # Moved
    /\ calls < MaxCalls
    /\ vres' = validate_json(ty, json)
    /\ arg' = json
    /\ json' = IF kind(json) = "array" THEN Array(<<>>) ELSE json
    /\ calls' = calls + 1
    /\ op' = "validate_json"
    /\ UNCHANGED <<ty, value, dres, fres>>

\* T::validate_json(&json)
ValidateJson ==
    /\ json # Moved
    /\ calls < MaxCalls
    /\ vres' = validate_json(ty, json)
    /\ arg' = json
    /\ calls' = calls + 1
    /\ op' = "validate_json"
    /\ UNCHANGED <<ty, json, value, dres, fres>>

\* T::from_json_unchecked(json)
FromJsonUnchecked ==
    /\ json # Moved
    /\ dres' = from_json_unchecked(ty, json)
    /\ arg' = json
    /\ json' = Moved
    /\ op' = "from_json_unchecked"
    /\ UNCHANGED <<ty, value, calls, vres, fres>>

\* T::from_json(json)
FromJson ==
    /\ json # Moved
    /\ vres' = from_json(ty, json)[1]
    /\ dres' = from_json(ty, json)[2]
    /\ fres' = from_json(ty, json)[3]
    /\ arg' = json
    /\ json' = Moved
    /\ op' = "from_json"
    /\ UNCHANGED <<ty, value, calls>>

\* value.to_json(): a fresh Value, on which nothing has been called yet
ToJson ==
    /\ value # NoValue
    /\ json' \in to_json(ty, value)
    /\ arg' = NoValue
    /\ calls' = 0
    /\ vres' = NotCalled
    /\ dres' = NotCalled
    /\ fres' = NotCalled
    /\ op' = "to_json"
    /\ UNCHANGED <<ty, value>>

Next == ValidateJson \/ FromJsonUnchecked \/ FromJson \/ ToJson

Spec == Init /\ [][Next]_vars

(***************************************************************************)
(* Properties                                                              *)
(***************************************************************************)
RECURSIVE involves_enum(_)
\* T is, or is built from, a derived enum
involves_enum(T) ==
    CASE T[1] = "Enum" -> TRUE
      [] T[1] \in {"Option", "Vec", "HashSet", "HashMap", "Array"} -> involves_enum(T[2])
      [] T[1] = "NamedStruct" -> \E i \in 1..Len(T[3]) : involves_enum(T[3][i][2])
      [] T[1] = "TupleStruct" -> \E i \in 1..Len(T[3]) : involves_enum(T[3][i])
      [] OTHER -> FALSE

\* the names of the unit variants an enum declares, in declaration order
unit_variant_names(T) ==
    LET units == {i \in 1..Len(T[3]) : T[3][i][2] = "Unit"}
    IN [n \in 1..Cardinality(units) |-> T[3][ascending(units)[n]][1]]

\* C1: whenever validate_json returned Ok for a Value, from_json_unchecked of
\* that Value returns a value and does not panic.
C1_ValidatedDecodeDoesNotPanic == (is_ok(vres) /\ dres # NotCalled) => dres # Panic

\* C2 as claimed: whenever validate_json returned an Err for a Value,
\* from_json_unchecked of that Value panics.
C2_RejectedDecodePanics == (is_err(vres) /\ dres # NotCalled) => dres = Panic

\* C2 amended: for a type that involves no derived enum, whenever
\* validate_json returned an Err for a Value, from_json_unchecked of that
\* Value panics (a wrong root kind and a wrong [T; N] length included).
C2_RejectedDecodePanicsWithoutEnum ==
    (~involves_enum(ty) /\ is_err(vres) /\ dres # NotCalled) => dres = Panic

\* C2 witness: an array of the wrong length was rejected by [u8; N] and then
\* made from_json_unchecked panic
C2_Witness ==
    /\ ty = ArrayT(U8, ArrayN)
    /\ is_err(vres)
    /\ vres[2][1] = "InvalidArrayLength"
    /\ dres = Panic

\* C3: from_json is Ok exactly when validate_json is Ok; on Err(e) it returns
\* Err(e) and from_json_unchecked is not called; on Ok it returns Ok of what
\* from_json_unchecked returned.
C3_FromJsonFollowsValidate ==
    op = "from_json" =>
        /\ is_ok(fres) <=> is_ok(vres)
        /\ is_err(vres) => (fres = vres /\ dres = NotCalled)
        /\ is_ok(vres) => fres = Ok(dres)

\* C4: round trip: from_json of the Value to_json made of v returns Ok(v).
C4_RoundTrip == (op = "from_json" /\ value # NoValue) => fres = Ok(value)

C6_ValidateNeverPanics ==
    (vres # NotCalled) => (vres # Panic /\ (is_ok(vres) \/ is_err(vres)))

\* C6 witness: the enum validator reached map.keys().last().unwrap()
C6_Witness == ty = TestEnum /\ is_err(vres) /\ vres[2][1] = "IncorrectKeyForEnum"

\* C7: [T; N] rejects an Array of another length L with
\* InvalidArrayLength{got: L, expected: N}, whatever its elements, and a
\* non-Array with IncompatibleJsonType expecting "array".
C7_FixedArrayLength ==
    (ty[1] = "Array" /\ op = "validate_json") =>
        /\ (kind(arg) = "array" /\ Len(arg[2]) # ty[3]) =>
               vres = Err(InvalidArrayLength(Len(arg[2]), ty[3]))
        /\ kind(arg) # "array" => vres = Err(IncompatibleJsonType(kind(arg), "array"))

\* C7 witness: an array of the wrong length holding an element u8 rejects
C7_Witness ==
    /\ ty[1] = "Array"
    /\ op = "validate_json"
    /\ kind(arg) = "array"
    /\ Len(arg[2]) # ty[3]
    /\ \E i \in 1..Len(arg[2]) : arg[2][i] = String("Value")
    /\ vres = Err(InvalidArrayLength(Len(arg[2]), ty[3]))

\* C8: for a derived enum, a String naming a declared unit variant validates
\* and decodes to that variant; any other String s is rejected with
\* InvalidEnumStringVariant{got: s, expected: the unit variants' names in
\* declaration order}.
C8_EnumUnitVariantString ==
    (ty[1] = "Enum" /\ kind(arg) = "string") =>
        IF \E i \in 1..Len(unit_variant_names(ty)) : unit_variant_names(ty)[i] = arg[2]
        THEN /\ vres # NotCalled => vres = Ok(Unit)
             /\ dres # NotCalled => dres = <<"Variant", ty[2], arg[2], <<>>>>
             /\ fres # NotCalled => fres = Ok(<<"Variant", ty[2], arg[2], <<>>>>)
        ELSE vres # NotCalled =>
                 vres = Err(InvalidEnumStringVariant(ty[2], arg[2], unit_variant_names(ty)))

\* C8 witness: "Other" rejected by an enum that also has non-unit variants
C8_Witness ==
    /\ ty = TestEnum
    /\ arg = String("Other")
    /\ vres = Err(InvalidEnumStringVariant("TestEnum", "Other", <<"Value", "Value2">>))

\* C9: for a derived enum, an Object with n # 1 keys is rejected with
\* IncorrectObjectKeyCountForEnum{count: n}, whatever its keys name.
C9_EnumObjectKeyCount ==
    (ty[1] = "Enum" /\ vres # NotCalled /\ kind(arg) = "object" /\ Len(arg[2]) # 1) =>
        vres = Err(IncorrectObjectKeyCountForEnum(ty[2], Len(arg[2])))

\* C9 witness: an Object whose two keys both name declared non-unit variants
C9_Witness ==
    /\ ty = TestEnum
    /\ kind(arg) = "object"
    /\ Len(arg[2]) = 2
    /\ arg[2][1][1] = "Float"
    /\ arg[2][2][1] = "OptionalSingle"
    /\ vres = Err(IncorrectObjectKeyCountForEnum("TestEnum", 2))

\* the case C10 is about: an enum's validate_json was given a one-key Object
\* whose key names a named-field or >=2-positional-field variant and whose
\* inner value has that variant's container kind and size
multi_field_case ==
    /\ ty[1] = "Enum"
    /\ vres # NotCalled
    /\ kind(arg) = "object"
    /\ Len(arg[2]) = 1
    /\ \E i \in 1..Len(ty[3]) :
          /\ ty[3][i][1] = arg[2][1][1]
          /\ \/ /\ ty[3][i][2] = "Named"
                /\ kind(arg[2][1][2]) = "object"
                /\ Len(arg[2][1][2][2]) = Len(ty[3][i][3])
             \/ /\ ty[3][i][2] = "Unnamed"
                /\ Len(ty[3][i][3]) > 1
                /\ kind(arg[2][1][2]) = "array"
                /\ Len(arg[2][1][2][2]) = Len(ty[3][i][3])

\* in that case: the variant matched, its i-th field's type, and the error
\* the i-th field yields (None when the field is valid)
matched_variant == variant_named(ty, arg[2][1][1])

field_type(i) ==
    IF matched_variant[2] = "Named" THEN matched_variant[3][i][2] ELSE matched_variant[3][i]

field_error(i) ==
    LET inner == arg[2][1][2][2]
        given == IF matched_variant[2] = "Named"
                 THEN map_get(inner, matched_variant[3][i][1])
                 ELSE Some(inner[i])
    IN IF given = None
       THEN Some(MissingKeyForEnumVariant(matched_variant[1], matched_variant[3][i][1]))
       ELSE IF is_ok(validate_json(field_type(i), given[2])) THEN None
       ELSE Some(InnerErrorForType(type_name(field_type(i)),
                                   validate_json(field_type(i), given[2])[2]))

failing_fields == {i \in 1..Len(matched_variant[3]) : field_error(i) # None}

\* C10: in that case every field is checked: when k >= 1 fields fail the
\* result is one InnerErrorsForType with exactly k errors, the failing
\* fields' errors in declaration order.
C10_AllFieldErrorsReported ==
    (multi_field_case /\ failing_fields # {}) =>
        /\ is_err(vres)
        /\ vres[2][1] = "InnerErrorsForType"
        /\ Len(vres[2][3]) = Cardinality(failing_fields)
        /\ \A n \in 1..Cardinality(failing_fields) :
              vres[2][3][n] = field_error(ascending(failing_fields)[n])[2]

\* C10 witness: a named-field variant both of whose fields fail
C10_Witness ==
    /\ multi_field_case
    /\ matched_variant[2] = "Named"
    /\ Cardinality(failing_fields) = 2
    /\ is_err(vres)
    /\ Len(vres[2][3]) = 2

\* a variant with positional fields both of which fail
C10_WitnessPositional ==
    /\ multi_field_case
    /\ matched_variant[2] = "Unnamed"
    /\ Cardinality(failing_fields) = 2
    /\ is_err(vres)

\* the case C11, C19 and C20 are about: a derived struct with fields was
\* handed an Object to validate
record_case ==
    /\ ty[1] \in {"NamedStruct", "TupleStruct"}
    /\ vres # NotCalled
    /\ kind(arg) = "object"

\* in that case: the key and the type of the i-th declared field, the Value
\* validated for it (Null when the key is absent) and that validation's result
record_key(i) == IF ty[1] = "NamedStruct" THEN fields_of(ty)[i][1] ELSE index_key(i - 1)

record_type(i) == IF ty[1] = "NamedStruct" THEN fields_of(ty)[i][2] ELSE fields_of(ty)[i]

record_given(i) == unwrap_or(map_get(arg[2], record_key(i)), Null)

record_result(i) == validate_json(record_type(i), record_given(i))

failing_record_fields == {i \in 1..Len(fields_of(ty)) : is_err(record_result(i))}

\* C11 as claimed: when several fields of a record fail at once the result is
\* one InnerErrorsForType that lists every failing field.
C11_RecordReportsEveryFailure ==
    (record_case /\ Cardinality(failing_record_fields) >= 2) =>
        /\ is_err(vres)
        /\ vres[2][1] = "InnerErrorsForType"
        /\ Len(vres[2][3]) = Cardinality(failing_record_fields)

\* C11 amended: when one or more fields of a record fail, the result is the
\* single InnerErrorForType of the first failing field in declaration order,
\* tagged with that field's type name; later failures are not reported.
C11_RecordReportsFirstFailure ==
    (record_case /\ failing_record_fields # {}) =>
        LET first == ascending(failing_record_fields)[1]
        IN vres = Err(InnerErrorForType(type_name(record_type(first)),
                                        record_result(first)[2]))

\* C11 witness: both fields of Person fail and only first_name is reported
C11_Witness ==
    /\ record_case
    /\ ty = Person
    /\ Cardinality(failing_record_fields) = 2
    /\ vres = Err(InnerErrorForType("alloc::string::String",
                                    IncompatibleJsonType("null", "string")))

\* the Object map with key k added with the value Null, the keys kept in
\* ascending order (for maps whose keys are field keys)
with_null_key(map, k) ==
    LET present == {n \in 1..Len(FieldKeys) :
                       contains_key(map, FieldKeys[n]) \/ FieldKeys[n] = k}
    IN [n \in 1..Cardinality(present) |->
           <<FieldKeys[ascending(present)[n]],
             unwrap_or(map_get(map, FieldKeys[ascending(present)[n]]), Null)>>]

\* the case C12 is about: a named-field record was handed an Object of field
\* keys; its Option fields whose key the Object lacks
named_record_case ==
    /\ ty[1] = "NamedStruct"
    /\ arg # NoValue
    /\ kind(arg) = "object"
    /\ \A n \in 1..Len(arg[2]) : \E m \in 1..Len(FieldKeys) : arg[2][n][1] = FieldKeys[m]

absent_option_fields ==
    {i \in 1..Len(fields_of(ty)) :
        /\ fields_of(ty)[i][2][1] = "Option"
        /\ ~contains_key(arg[2], fields_of(ty)[i][1])}

\* C12: an Object that lacks the key of an Option<T> field is validated and
\* decoded exactly as the same Object with that key present and Null: it
\* validates when the other fields are valid, and decodes with the field None.
C12_AbsentOptionFieldIsNull ==
    named_record_case =>
        \A i \in absent_option_fields :
            LET filled == Object(with_null_key(arg[2], fields_of(ty)[i][1]))
            IN /\ vres # NotCalled =>
                    /\ vres = validate_json(ty, filled)
                    /\ (\A k \in 1..Len(fields_of(ty)) : k # i => is_ok(record_result(k)))
                           => vres = Ok(Unit)
               /\ dres # NotCalled =>
                    /\ dres = from_json_unchecked(ty, filled)
                    /\ dres # Panic => dres[3][i] = None

\* C12 witness: Person decoded from an Object with first_name only
C12_Witness ==
    /\ named_record_case
    /\ ty = Person
    /\ absent_option_fields = {2}
    /\ vres = Ok(Unit)
    /\ fres = Ok(<<"Struct", "Person", <<<<"String", "Value">>, None>>>>)

\* the case C13 and C14 are about: json is the to_json encoding of a
\* non-unit variant of a derived enum
encoded_variant_case ==
    /\ ty[1] = "Enum"
    /\ value # NoValue
    /\ json # Moved
    /\ variant_named(ty, value[3])[2] # "Unit"

\* C13: to_json of a non-unit variant is an Object with exactly one key, the
\* variant's name; for >= 2 positional fields the value under the key is the
\* Array of the fields' encodings in declared order.
C13_VariantEncodesToOneKeyObject ==
    encoded_variant_case =>
        LET variant == variant_named(ty, value[3])
        IN /\ kind(json) = "object"
           /\ Len(json[2]) = 1
           /\ json[2][1][1] = variant[1]
           /\ (variant[2] = "Unnamed" /\ Len(variant[3]) > 1) =>
                 /\ kind(json[2][1][2]) = "array"
                 /\ Len(json[2][1][2][2]) = Len(variant[3])
                 /\ \A i \in 1..Len(variant[3]) :
                       json[2][1][2][2][i] \in to_json(variant[3][i], value[4][i])

\* the case C14 is about on the decoding side: an enum was handed a one-key
\* Object whose key names a variant with >= 2 positional fields and whose
\* inner value is an Array of that many elements
positional_variant_case ==
    /\ ty[1] = "Enum"
    /\ arg # NoValue
    /\ kind(arg) = "object"
    /\ Len(arg[2]) = 1
    /\ \E i \in 1..Len(ty[3]) :
          /\ ty[3][i][1] = arg[2][1][1]
          /\ ty[3][i][2] = "Unnamed"
          /\ Len(ty[3][i][3]) > 1
          /\ kind(arg[2][1][2]) = "array"
          /\ Len(arg[2][1][2][2]) = Len(ty[3][i][3])

\* C14: a variant with >= 2 positional fields uses one order throughout:
\* to_json produces array element i from field i, validate_json validates
\* element i against field i's type, and from_json_unchecked assigns the
\* decoding of element i to field i.
C14_PositionalOrderConsistent ==
    /\ (encoded_variant_case /\ variant_named(ty, value[3])[2] = "Unnamed"
            /\ Len(variant_named(ty, value[3])[3]) > 1) =>
          LET types == variant_named(ty, value[3])[3]
              array == IF kind(json) = "array" THEN json[2] ELSE json[2][1][2][2]
          IN /\ Len(array) = Len(types)
             /\ \A i \in 1..Len(types) : array[i] \in to_json(types[i], value[4][i])
    /\ positional_variant_case =>
          LET types == variant_named(ty, arg[2][1][1])[3]
              array == arg[2][1][2][2]
              field(i) == from_json_unchecked(types[i], array[i])
          IN /\ vres # NotCalled =>
                   (is_ok(vres) <=> \A i \in 1..Len(types) :
                                        is_ok(validate_json(types[i], array[i])))
             /\ dres # NotCalled =>
                   dres = IF \E i \in 1..Len(types) : field(i) = Panic THEN Panic
                          ELSE <<"Variant", ty[2], arg[2][1][1],
                                 [i \in 1..Len(types) |-> field(i)]>>

\* the values of the 8-bit integer types
IntRange(T) == IF T[1] = "u8" THEN 0..255 ELSE -128..127

\* the case C15 is about: an 8-bit integer type was handed a Number
narrow_integer_case ==
    /\ ty[1] \in {"u8", "i8"}
    /\ arg # NoValue
    /\ kind(arg) = "number"

\* C15: validate_json accepts every Number for an integer type (no range
\* error), and when the type's 64-bit read yields the wide value n,
\* from_json_unchecked yields the one value of the target type congruent to
\* n modulo 2^8 (300 gives 44 as u8, 200 gives -56 as i8).
C15_IntegerNarrowing ==
    narrow_integer_case =>
        LET read == IF method(ty) = "as_u64" THEN as_u64(arg) ELSE as_i64(arg)
        IN /\ vres # NotCalled => vres = Ok(Unit)
           /\ (dres # NotCalled /\ read # None) =>
                 /\ dres # Panic
                 /\ dres[1] = ty[1]
                 /\ dres[2] \in IntRange(ty)
                 /\ (read[2] - dres[2]) % 256 = 0

\* C15 witness: 300 was validated and decoded as u8, giving 44
C15_Witness ==
    /\ narrow_integer_case
    /\ ty = U8
    /\ arg = Number("PosInt", 300)
    /\ vres = Ok(Unit)
    /\ fres = Ok(<<"u8", 44>>)

\* 200 decoded as i8 wraps to -56
C15_WitnessSigned ==
    /\ narrow_integer_case
    /\ ty = I8
    /\ arg = Number("PosInt", 200)
    /\ dres = <<"i8", -56>>

\* the case C16 is about: a Vec, HashSet, HashMap or [T; N] validated a Value
container_case ==
    /\ ty[1] \in {"Vec", "HashSet", "HashMap", "Array"}
    /\ vres # NotCalled

\* in that case: the root kind the container expects, and the entries of a
\* root of that kind that fail T's validation
expected_root == IF ty[1] = "HashMap" THEN "object" ELSE "array"

container_entries ==
    IF ty[1] = "HashMap" THEN [i \in 1..Len(arg[2]) |-> arg[2][i][2]] ELSE arg[2]

failing_entries ==
    {i \in 1..Len(container_entries) : is_err(validate_json(ty[2], container_entries[i]))}

\* C16 as claimed: a root of the wrong kind gives IncompatibleJsonType with
\* the root's kind; a root of the right kind with at least one failing entry
\* gives IncompatibleEntryForType(type name of T), for all four containers.
C16_ContainerErrors ==
    container_case =>
        IF kind(arg) # expected_root
        THEN vres = Err(IncompatibleJsonType(kind(arg), expected_root))
        ELSE failing_entries # {} => vres = Err(IncompatibleEntryForType(type_name(ty[2])))

\* C16 amended: as claimed for Vec, HashSet and HashMap; for [T; N] the
\* entries are looked at only in an Array of length N, and an Array of any
\* other length gives InvalidArrayLength whatever its entries are.
C16_ContainerErrorsSizedArray ==
    container_case =>
        IF kind(arg) # expected_root
        THEN vres = Err(IncompatibleJsonType(kind(arg), expected_root))
        ELSE IF ty[1] = "Array" /\ Len(arg[2]) # ty[3]
        THEN vres = Err(InvalidArrayLength(Len(arg[2]), ty[3]))
        ELSE failing_entries # {} => vres = Err(IncompatibleEntryForType(type_name(ty[2])))

\* C16 witness: Vec<u8> rejected an Array whose two entries fail with
\* different errors of their own
C16_Witness ==
    /\ container_case
    /\ ty = VecT(U8)
    /\ kind(arg) = "array"
    /\ Cardinality(failing_entries) = 2
    /\ validate_json(U8, arg[2][1]) # validate_json(U8, arg[2][2])
    /\ vres = Err(IncompatibleEntryForType("u8"))

\* a HashMap rejected an Object one of whose values fails
C16_WitnessHashMap ==
    /\ container_case
    /\ ty = HashMapT(U8)
    /\ kind(arg) = "object"
    /\ Cardinality(failing_entries) = 1
    /\ Len(arg[2]) = 2
    /\ vres = Err(IncompatibleEntryForType("u8"))

\* C17: Option<T>: validate_json accepts Null and otherwise returns T's
\* result unchanged; from_json_unchecked maps Null to None and any other
\* Value to Some of T's decoding (panicking when T's decoding panics);
\* to_json maps None to Null and Some(x) to the encoding of x, unwrapped.
C17_OptionCodec ==
    ty[1] = "Option" =>
        /\ vres # NotCalled =>
              vres = IF arg = Null THEN Ok(Unit) ELSE validate_json(ty[2], arg)
        /\ dres # NotCalled =>
              dres = IF arg = Null THEN None
                     ELSE IF from_json_unchecked(ty[2], arg) = Panic THEN Panic
                     ELSE Some(from_json_unchecked(ty[2], arg))
        /\ (value # NoValue /\ json # Moved) =>
              IF value = None THEN json = Null ELSE json \in to_json(ty[2], value[2])

\* C17 witness: Option<u8> rejected a String with u8's own error
C17_Witness ==
    /\ ty = OptionT(U8)
    /\ arg = String("Value")
    /\ vres = Err(IncompatibleJsonType("string", "number"))

\* Option<u8> decoded 1 to Some(1)
C17_WitnessSome ==
    /\ ty = OptionT(U8)
    /\ arg = Number("PosInt", 1)
    /\ fres = Ok(Some(<<"u8", 1>>))

\* Option<u8> accepted Null and decoded it to None
C17_WitnessNone ==
    /\ ty = OptionT(U8)
    /\ arg = Null
    /\ vres = Ok(Unit)
    /\ dres = None

\* Option<u8> encoded Some(255) as the bare Number 255
C17_WitnessEncoded ==
    /\ ty = OptionT(U8)
    /\ value = Some(<<"u8", 255>>)
    /\ json = Number("PosInt", 255)

\* the names of the non-unit variants an enum declares
non_unit_variant_names(T) == {T[3][i][1] : i \in {i \in 1..Len(T[3]) : T[3][i][2] # "Unit"}}

\* C18: for a derived enum, a single-key Object whose key is not the name of
\* a declared non-unit variant is rejected with IncorrectKeyForEnum carrying
\* that key, also when the key is the name of a declared unit variant.
C18_EnumIncorrectKey ==
    (/\ ty[1] = "Enum"
     /\ vres # NotCalled
     /\ kind(arg) = "object"
     /\ Len(arg[2]) = 1
     /\ arg[2][1][1] \notin non_unit_variant_names(ty)) =>
        vres = Err(IncorrectKeyForEnum(ty[2], arg[2][1][1]))

\* C18 witness: TestEnum rejected an Object keyed by its unit variant Value
C18_Witness ==
    /\ ty = TestEnum
    /\ vres # NotCalled
    /\ kind(arg) = "object"
    /\ Len(arg[2]) = 1
    /\ arg[2][1][1] = "Value"
    /\ vres = Err(IncorrectKeyForEnum("TestEnum", "Value"))

\* TestEnum rejected an Object keyed by no variant's name
C18_WitnessUndeclared ==
    /\ ty = TestEnum
    /\ kind(arg) = "object"
    /\ vres = Err(IncorrectKeyForEnum("TestEnum", "Other"))

\* C19: a named-field record rejects a non-Object with IncompatibleJsonType
\* {got: its kind, expected: "object"}; for an Object every declared field's
\* value, Null when the key is absent, is validated by the field's type, the
\* Object is accepted when no field fails, and a failure e is returned as
\* InnerErrorForType{ty: the failing field's type name, error: e}.
C19_NamedRecordValidation ==
    (ty[1] = "NamedStruct" /\ vres # NotCalled) =>
        IF kind(arg) # "object"
        THEN vres = Err(IncompatibleJsonType(kind(arg), "object"))
        ELSE IF failing_record_fields = {} THEN vres = Ok(Unit)
        ELSE /\ is_err(vres)
             /\ vres[2][1] = "InnerErrorForType"
             /\ \E i \in failing_record_fields :
                   /\ vres[2][2] = type_name(fields_of(ty)[i][2])
                   /\ vres[2][3] = validate_json(fields_of(ty)[i][2],
                                       unwrap_or(map_get(arg[2], fields_of(ty)[i][1]), Null))[2]

\* C19 witness: Person rejected an Object whose last_name is a Number
C19_Witness ==
    /\ ty = Person
    /\ vres # NotCalled
    /\ kind(arg) = "object"
    /\ failing_record_fields = {2}
    /\ vres = Err(InnerErrorForType("core::option::Option<alloc::string::String>",
                                    IncompatibleJsonType("number", "string")))

\* Person rejected an Array
C19_WitnessNonObject ==
    /\ ty = Person
    /\ kind(arg) = "array"
    /\ vres = Err(IncompatibleJsonType("array", "object"))

\* the decimal strings of the first 0-based indices
decimal_keys == <<"0", "1", "2", "3">>

\* C20: a tuple record is encoded as an Object keyed "0", "1", ... by 0-based
\* field index; validate_json and from_json_unchecked read field i from the
\* same key (Null when it is absent); and from_json(to_json(v)) = Ok(v).
C20_TupleRecordKeys ==
    ty[1] = "TupleStruct" =>
        LET types == fields_of(ty)
            given(i) == unwrap_or(map_get(arg[2], decimal_keys[i]), Null)
        IN /\ (value # NoValue /\ json # Moved) =>
                 /\ kind(json) = "object"
                 /\ Len(json[2]) = Len(types)
                 /\ \A i \in 1..Len(types) :
                       /\ json[2][i][1] = decimal_keys[i]
                       /\ json[2][i][2] \in to_json(types[i], value[3][i])
           /\ (vres # NotCalled /\ kind(arg) = "object") =>
                 (is_ok(vres) <=>
                     \A i \in 1..Len(types) : is_ok(validate_json(types[i], given(i))))
           /\ (dres # NotCalled /\ dres # Panic) =>
                 \A i \in 1..Len(types) : dres[3][i] = from_json_unchecked(types[i], given(i))
           /\ (op = "from_json" /\ value # NoValue) => fres = Ok(value)

\* C20 witness: Pair(255, "Other") was encoded as {"0": 255, "1": "Other"}
\* and decoded back by from_json
C20_Witness ==
    /\ ty = Pair
    /\ op = "from_json"
    /\ value = <<"Struct", "Pair", <<<<"u8", 255>>, <<"String", "Other">>>>>>
    /\ arg = Object(<< <<"0", Number("PosInt", 255)>>, <<"1", String("Other")>> >>)
    /\ fres = Ok(value)

\* C21: a unit record encodes to the empty Object; validate_json accepts
\* every Object whatever its keys and rejects a non-Object with
\* IncompatibleJsonType{got: its kind, expected: "object"};
\* from_json_unchecked of any Object returns the unit value.
C21_UnitRecord ==
    ty[1] = "UnitStruct" =>
        /\ (value # NoValue /\ json # Moved) => json = Object(<<>>)
        /\ vres # NotCalled =>
              vres = IF kind(arg) = "object" THEN Ok(Unit)
                     ELSE Err(IncompatibleJsonType(kind(arg), "object"))
        /\ (dres # NotCalled /\ kind(arg) = "object") => dres = <<"Struct", ty[2], <<>>>>

\* C21 witness: Marker accepted and decoded an Object with two keys
C21_Witness ==
    /\ ty = Marker
    /\ kind(arg) = "object"
    /\ Len(arg[2]) = 2
    /\ vres = Ok(Unit)
    /\ fres = Ok(<<"Struct", "Marker", <<>>>>)

\* Marker rejected a String
C21_WitnessNonObject ==
    /\ ty = Marker
    /\ vres = Err(IncompatibleJsonType("string", "object"))

\* Marker was encoded
C21_WitnessEncoded ==
    /\ ty = Marker
    /\ op = "to_json"
    /\ json = Object(<<>>)

\* the case C22 is about: an enum validated a one-key Object whose key names
\* a variant with one positional field, and the inner value fails the
\* validation of that field's type
single_field_case ==
    /\ ty[1] = "Enum"
    /\ vres # NotCalled
    /\ kind(arg) = "object"
    /\ Len(arg[2]) = 1
    /\ \E i \in 1..Len(ty[3]) :
          /\ ty[3][i][1] = arg[2][1][1]
          /\ ty[3][i][2] = "Unnamed"
          /\ Len(ty[3][i][3]) = 1
          /\ is_err(validate_json(ty[3][i][3][1], arg[2][1][2]))

\* in that case: the error e of the field's own validation
single_field_error ==
    validate_json(variant_named(ty, arg[2][1][1])[3][1], arg[2][1][2])[2]

\* C22 as claimed: the result is one InnerErrorForType whose error is e.
C22_SingleFieldWrappedOnce ==
    single_field_case =>
        /\ is_err(vres)
        /\ vres[2][1] = "InnerErrorForType"
        /\ vres[2][3] = single_field_error

\* C22 amended: the result is never a list: it is an InnerErrorForType
\* tagged with the variant's name around an InnerErrorForType tagged with
\* the field type's name around e.
C22_SingleFieldWrappedTwice ==
    single_field_case =>
        vres = Err(InnerErrorForType(arg[2][1][1],
                   InnerErrorForType(type_name(variant_named(ty, arg[2][1][1])[3][1]),
                                     single_field_error)))

\* C22 witness: TestEnum rejected {"Float": "Value"}
C22_Witness ==
    /\ single_field_case
    /\ ty = TestEnum
    /\ arg = Object(<< <<"Float", String("Value")>> >>)
    /\ vres = Err(InnerErrorForType("Float",
                  InnerErrorForType("f32", IncompatibleJsonType("string", "number"))))

\* the case C23 and C27 are about: an enum was handed a one-key Object whose
\* key names a named-field variant and whose inner value is an Object
named_variant_case ==
    /\ ty[1] = "Enum"
    /\ arg # NoValue
    /\ kind(arg) = "object"
    /\ Len(arg[2]) = 1
    /\ kind(arg[2][1][2]) = "object"
    /\ \E i \in 1..Len(ty[3]) : ty[3][i][1] = arg[2][1][1] /\ ty[3][i][2] = "Named"

\* in that case: the declared fields, the inner Object's map, and the
\* declared fields whose key the inner Object lacks
named_variant_fields == variant_named(ty, arg[2][1][1])[3]

named_variant_inner == arg[2][1][2][2]

absent_variant_fields ==
    {i \in 1..Len(named_variant_fields) :
        ~contains_key(named_variant_inner, named_variant_fields[i][1])}

\* C23 as claimed: every declared field key absent from the inner Object is
\* reported by validate_json as MissingKeyForEnumVariant{variant, key}.
C23_AbsentKeyReported ==
    (named_variant_case /\ vres # NotCalled) =>
        \A i \in absent_variant_fields :
            /\ is_err(vres)
            /\ vres[2][1] = "InnerErrorsForType"
            /\ \E n \in 1..Len(vres[2][3]) :
                  vres[2][3][n] = MissingKeyForEnumVariant(arg[2][1][1],
                                                           named_variant_fields[i][1])

\* C23 amended: the absent keys are reported, each as a
\* MissingKeyForEnumVariant{variant, key} in the InnerErrorsForType list,
\* when the inner Object has exactly as many keys as the variant declares
\* fields; with any other key count the result is IncorrectFieldCountForEnum
\* and no key is named.
C23_AbsentKeyReportedAtFieldCount ==
    (named_variant_case /\ vres # NotCalled) =>
        IF Len(named_variant_inner) = Len(named_variant_fields)
        THEN \A i \in absent_variant_fields :
                /\ is_err(vres)
                /\ vres[2][1] = "InnerErrorsForType"
                /\ \E n \in 1..Len(vres[2][3]) :
                      vres[2][3][n] = MissingKeyForEnumVariant(arg[2][1][1],
                                                               named_variant_fields[i][1])
        ELSE vres = Err(IncorrectFieldCountForEnum(ty[2], arg[2][1][1],
                                                   Len(named_variant_fields)))

\* C23 witness: TestEnum rejected {"Named": {"0": null}}, where an undeclared
\* key stands in the place of field1
C23_Witness ==
    /\ named_variant_case
    /\ ty = TestEnum
    /\ arg = Object(<< <<"Named", Object(<< <<"0", Null>> >>)>> >>)
    /\ vres = Err(InnerErrorsForType("TestEnum",
                      <<MissingKeyForEnumVariant("Named", "field1")>>))

\* C24: HashSet<T>: from_json_unchecked of an Array yields the set of the
\* decoded elements (every decoded element is a member, every member is a
\* decoded element, so duplicates collapse and the size is at most the
\* Array's length); to_json of a set is an Array with the encoding of each
\* member exactly once, in some order; and from_json(to_json(v)) = Ok(v).
C24_HashSetMembership ==
    ty[1] = "HashSet" =>
        /\ (dres # NotCalled /\ dres # Panic) =>
              /\ kind(arg) = "array"
              /\ dres[1] = "HashSet"
              /\ Cardinality(dres[2]) <= Len(arg[2])
              /\ \A i \in 1..Len(arg[2]) : from_json_unchecked(ty[2], arg[2][i]) \in dres[2]
              /\ \A x \in dres[2] :
                    \E i \in 1..Len(arg[2]) : from_json_unchecked(ty[2], arg[2][i]) = x
        /\ (value # NoValue /\ json # Moved) =>
              /\ kind(json) = "array"
              /\ Len(json[2]) = Cardinality(value[2])
              /\ \A x \in value[2] :
                    Cardinality({i \in 1..Len(json[2]) : json[2][i] \in to_json(ty[2], x)}) = 1
        /\ (op = "from_json" /\ value # NoValue) => fres = Ok(value)

\* C24 witness: ["Value", "Value"] decoded to the one-member set {"Value"}
C24_Witness ==
    /\ ty = HashSetT(StringT)
    /\ arg = Array(<<String("Value"), String("Value")>>)
    /\ dres = <<"HashSet", {<<"String", "Value">>}>>

\* a two-member set was encoded with "Other" first, and decoded back
C24_WitnessOrder ==
    /\ ty = HashSetT(StringT)
    /\ op = "from_json"
    /\ value # NoValue
    /\ Cardinality(value[2]) = 2
    /\ arg = Array(<<String("Other"), String("Value")>>)
    /\ fres = Ok(value)

\* the same set was encoded with "Value" first
C24_WitnessOtherOrder ==
    /\ ty = HashSetT(StringT)
    /\ op = "to_json"
    /\ json = Array(<<String("Value"), String("Other")>>)

\* C25: Vec<T> and [T; N] keep the order in both directions: whenever
\* from_json_unchecked of an Array returns, the result has the Array's length
\* and its i-th element is the decoding of the Array's i-th element (it
\* returns unless an element's decoding panics or, for [T; N], the length is
\* not N); to_json yields an Array of the value's length whose i-th element
\* is the encoding of the value's i-th element.
C25_SequencesKeepOrder ==
    ty[1] \in {"Vec", "Array"} =>
        /\ (dres # NotCalled /\ kind(arg) = "array") =>
              IF \/ \E i \in 1..Len(arg[2]) : from_json_unchecked(ty[2], arg[2][i]) = Panic
                 \/ ty[1] = "Array" /\ Len(arg[2]) # ty[3]
              THEN dres = Panic
              ELSE /\ dres[1] = ty[1]
                   /\ Len(dres[2]) = Len(arg[2])
                   /\ \A i \in 1..Len(arg[2]) :
                         dres[2][i] = from_json_unchecked(ty[2], arg[2][i])
        /\ (value # NoValue /\ json # Moved) =>
              /\ kind(json) = "array"
              /\ Len(json[2]) = Len(value[2])
              /\ \A i \in 1..Len(value[2]) : json[2][i] \in to_json(ty[2], value[2][i])

\* C25 witness: the Vec [1, 255] was encoded as [1, 255] and decoded back
C25_Witness ==
    /\ ty = VecT(U8)
    /\ value = <<"Vec", <<<<"u8", 1>>, <<"u8", 255>>>>>>
    /\ arg = Array(<<Number("PosInt", 1), Number("PosInt", 255)>>)
    /\ dres = value

\* the fixed-length array [255, 1] was encoded as [255, 1] and decoded back
C25_WitnessFixed ==
    /\ ty = ArrayT(U8, ArrayN)
    /\ value # NoValue
    /\ value[2][1] = <<"u8", 255>>
    /\ value[2][ArrayN] = <<"u8", 1>>
    /\ arg # NoValue
    /\ arg[2][1] = Number("PosInt", 255)
    /\ arg[2][ArrayN] = Number("PosInt", 1)
    /\ dres = value

\* the case C26 is about: an enum validated a one-key Object whose key names
\* a variant with >= 2 positional fields
positional_key_case ==
    /\ ty[1] = "Enum"
    /\ vres # NotCalled
    /\ kind(arg) = "object"
    /\ Len(arg[2]) = 1
    /\ \E i \in 1..Len(ty[3]) :
          /\ ty[3][i][1] = arg[2][1][1]
          /\ ty[3][i][2] = "Unnamed"
          /\ Len(ty[3][i][3]) > 1

\* C26: in that case an inner value that is not an Array gives
\* IncompatibleJsonType{got: "other", expected: "array"}, and an Array whose
\* length is not the declared field count gives IncorrectFieldCountForEnum
\* with the enum, the variant and the declared field count, whatever the
\* Array's elements are: both tests precede the validation of the fields.
C26_PositionalVariantShape ==
    positional_key_case =>
        LET declared == Len(variant_named(ty, arg[2][1][1])[3])
        IN IF kind(arg[2][1][2]) # "array"
           THEN vres = Err(IncompatibleJsonType("other", "array"))
           ELSE Len(arg[2][1][2][2]) # declared =>
                   vres = Err(IncorrectFieldCountForEnum(ty[2], arg[2][1][1], declared))

\* C26 witness: TestEnum rejected {"Multiple": [null, null, null]}, three
\* invalid elements for two declared fields, with the declared count 2
C26_Witness ==
    /\ positional_key_case
    /\ ty = TestEnum
    /\ arg = Object(<< <<"Multiple", Array(<<Null, Null, Null>>)>> >>)
    /\ vres = Err(IncorrectFieldCountForEnum("TestEnum", "Multiple", 2))

\* TestEnum rejected {"Multiple": {}} as not an Array
C26_WitnessNotArray ==
    /\ positional_key_case
    /\ arg = Object(<< <<"Multiple", Object(<<>>)>> >>)
    /\ vres = Err(IncompatibleJsonType("other", "array"))

\* C27: a named-field variant's inner Object is validated only when it has
\* exactly as many keys as the variant declares fields, and gives
\* IncorrectFieldCountForEnum otherwise; so an accepted inner Object has the
\* declared keys and no other, an absent key is rejected also when the
\* field's type is an Option, and from_json_unchecked panics on an absent key.
C27_NamedVariantExactKeys ==
    named_variant_case =>
        LET declared == Len(named_variant_fields)
        IN /\ (vres # NotCalled /\ Len(named_variant_inner) # declared) =>
                 vres = Err(IncorrectFieldCountForEnum(ty[2], arg[2][1][1], declared))
           /\ (vres # NotCalled /\ is_ok(vres)) =>
                 /\ absent_variant_fields = {}
                 /\ \A n \in 1..Len(named_variant_inner) :
                       \E i \in 1..declared :
                           named_variant_fields[i][1] = named_variant_inner[n][1]
           /\ (vres # NotCalled /\ absent_variant_fields # {}) => is_err(vres)
           /\ (dres # NotCalled /\ absent_variant_fields # {}) => dres = Panic

\* C27 witness: {"NamedMultiple": {"field1": 1}} lacks the key of the
\* Option-typed field2: validate_json rejected it and from_json_unchecked
\* panicked
C27_Witness ==
    /\ named_variant_case
    /\ ty = TestEnum
    /\ arg = Object(<< <<"NamedMultiple", Object(<< <<"field1", Number("PosInt", 1)>> >>)>> >>)
    /\ vres = Err(IncorrectFieldCountForEnum("TestEnum", "NamedMultiple", 2))
    /\ dres = Panic

\* {"Named": {"0": null, "field1": 1}} has an extra key and was rejected
C27_WitnessExtraKey ==
    /\ named_variant_case
    /\ arg = Object(<< <<"Named", Object(<< <<"0", Null>>, <<"field1", Number("PosInt", 1)>> >>)>> >>)
    /\ vres = Err(IncorrectFieldCountForEnum("TestEnum", "Named", 1))

\* C28: Option<T>::to_json(v) is Null when v is None and when v is Some(x)
\* and the encoding of x is Null; Null decodes to None.  So for
\* Option<Option<T>> both None and Some(None) encode to Null, and decoding
\* the encoding of Some(None) gives None.
C28_NestedOptionCollapses ==
    ty[1] = "Option" =>
        /\ (value # NoValue /\ json # Moved) =>
              /\ value = None => json = Null
              /\ (value # None /\ Null \in to_json(ty[2], value[2])) => json = Null
        /\ (dres # NotCalled /\ arg = Null) => dres = None
        /\ (op = "from_json" /\ value # NoValue /\ arg = Null) => fres = Ok(None)

\* C28 witness: Some(None) of Option<Option<u8>> was encoded as Null and
\* decoded to None
C28_Witness ==
    /\ ty = OptionT(OptionT(U8))
    /\ op = "from_json"
    /\ value = Some(None)
    /\ arg = Null
    /\ fres = Ok(None)

\* None of Option<Option<u8>> was encoded as Null too
C28_WitnessNone ==
    /\ ty = OptionT(OptionT(U8))
    /\ op = "to_json"
    /\ value = None
    /\ json = Null

====
